---- MODULE Spec2Model ----
(***************************************************************************)
(* Model of the scheduling conflict-resolution engine of the WhatsApp      *)
(* agent: the conversation state machine of main.py, the calendar          *)
(* connector's conflict check and event creation, and the free-slot search *)
(* of utils/time_utils.py.                                                 *)
(*                                                                         *)
(* Times are minutes after midnight of the one target day, all carrying    *)
(* the same explicit UTC offset (the form message_parser.py:157-174 and    *)
(* the planner hand downstream).  One requester is modelled; every message *)
(* of that requester is processed by its own asyncio task.  A task step is *)
(* the code between two awaits that touch the calendar, the classifier or  *)
(* the conversation state, together with the external call it ends in.     *)
(* Under Spec a message arrives when no earlier handling is still running. *)
(***************************************************************************)
EXTENDS Integers, Sequences, FiniteSets, TLC

\* ------------------------------------------------------------------------
\* Bounds of the model
\* ------------------------------------------------------------------------
MaxTasks == 2          \* task slots for message handlings
MaxPlanLen == 1        \* actions in one planned action plan
MaxEvents == 2         \* events the calendar can hold
MaxActions == 3        \* Action objects alive at the same time

\* ------------------------------------------------------------------------
\* Program constants
\* ------------------------------------------------------------------------
business_start == 9         \* time_utils.py:92
business_end == 18          \* time_utils.py:93
slot_step == 30             \* time_utils.py:160, minutes
max_found == 5              \* time_utils.py:163
top_alternatives == 3       \* time_utils.py:170

fallback_hours_unordered == <<12, 9, 16>>
fallback_hours == <<9, 12, 16>>   \* time_utils.py:193

None == "None"
NoTime == 0 - 1                \* a missing or empty time parameter
NoEvent == [start |-> NoTime, end |-> NoTime]   \* no event_id parameter

\* a clock hour of the target day, in minutes
Hour(h) == h * 60

Min(a, b) == IF a <= b THEN a ELSE b

\* ------------------------------------------------------------------------
\* Intervals and the overlap rule
\* ------------------------------------------------------------------------
Iv(s, e) == [start |-> s, end |-> e]

\* time_utils.py:146  current_time < busy_end and slot_end > busy_start
SlotOverlapsBusy(current_time, slot_end, busy_start, busy_end) ==
    current_time < busy_end /\ slot_end > busy_start

InQueryRangeInclusive(ev, timeMin, timeMax) ==
    ev.end >= timeMin /\ ev.start <= timeMax

\* Google Calendar events.list(timeMin, timeMax): the events whose end is after
\* timeMin and whose start is before timeMax (calendar_api.py:1047-1053).
InQueryRange(ev, timeMin, timeMax) ==
    ev.end > timeMin /\ ev.start < timeMax

\* ------------------------------------------------------------------------
\* Sequences helpers
\* ------------------------------------------------------------------------
RECURSIVE SetToSortedSeq(_)
\* events.list(orderBy='startTime'): the events in increasing start order
SetToSortedSeq(S) ==
    IF S = {} THEN <<>>
    ELSE LET m == CHOOSE x \in S :
                    \A y \in S : x.start < y.start
                                 \/ (x.start = y.start /\ x.end <= y.end)
         IN  <<m>> \o SetToSortedSeq(S \ {m})

RECURSIVE InsertByStart(_, _)
InsertByStart(sorted, x) ==
    IF sorted = <<>> THEN <<x>>
    ELSE IF x.start < Head(sorted).start THEN <<x>> \o sorted
    ELSE <<Head(sorted)>> \o InsertByStart(Tail(sorted), x)

RECURSIVE SortByStart(_)
\* time_utils.py:129  busy_periods.sort(key=lambda x: x[0])  (stable)
SortByStart(seq) ==
    IF seq = <<>> THEN <<>>
    ELSE LET n == Len(seq)
         IN  InsertByStart(SortByStart(SubSeq(seq, 1, n - 1)), seq[n])

SeqRange(seq) == {seq[i] : i \in 1..Len(seq)}

\* ------------------------------------------------------------------------
\* Calendar connector (connectors/calendar_api.py)
\* ------------------------------------------------------------------------
\* A listed or conflicting event as the connector formats it: 'start' and
\* 'end' are the ISO strings themselves (shape "str"), not the API's
\* {'dateTime': ...} objects (shape "dict").
FormatEvent(ev) == [start |-> ev.start, end |-> ev.end, shape |-> "str"]

FormatEvents(evs) == [i \in 1..Len(evs) |-> FormatEvent(evs[i])]

\* _ensure_iso_format: raises ValueError on a missing time; a time that
\* already carries an offset is used as it is.
EnsureIsoRaises(start_time, end_time) ==
    start_time = NoTime \/ end_time = NoTime

\* _list_events_sync: the day's events in start order, or an error result
\* that has no 'events' key.
ListEventsSync(cal, apiOk) ==
    IF apiOk
    THEN [status |-> "success",
          events |-> FormatEvents(SetToSortedSeq(cal))]
    ELSE [status |-> "error"]

\* _check_conflicts_sync: every event the API returns for [start, end) is a
\* conflict; has_conflicts is len(conflicts) > 0.
CheckConflictsSync(cal, start_time, end_time, apiOk) ==
    IF apiOk
    THEN LET found == FormatEvents(SetToSortedSeq(
                        {ev \in cal : InQueryRange(ev, start_time, end_time)}))
         IN  [status |-> "success",
              has_conflicts |-> Len(found) > 0,
              conflicts |-> found]
    ELSE [status |-> "error"]

\* no result yet
NoResult == [status |-> "none"]

\* dict.get(key) of a result: None when the key is absent
HasConflictsOf(res) ==
    IF "has_conflicts" \in DOMAIN res THEN res.has_conflicts ELSE FALSE

ConflictsOf(res) ==
    IF "conflicts" \in DOMAIN res THEN res.conflicts ELSE <<>>

EventsOf(res) ==
    IF "events" \in DOMAIN res THEN res.events ELSE <<>>

\* the intervals of the events a listing returned, whatever their shape
ListedIntervals(listing) ==
    [i \in 1..Len(EventsOf(listing)) |->
        Iv(EventsOf(listing)[i].start, EventsOf(listing)[i].end)]

CreateReturnsConflictWheneverChecked(res) ==
    res.status = "success"

\* create_event, lines 807-813: the check result that makes it return
\* status conflict instead of inserting
CreateReturnsConflict(res) ==
    res.status = "success" /\ res.has_conflicts

\* _create_event_sync: the insert, and its result
InsertedCalendar(cal, start_time, end_time, apiOk) ==
    IF apiOk THEN cal \cup {Iv(start_time, end_time)} ELSE cal

InsertResult(apiOk) ==
    IF apiOk THEN [status |-> "success"] ELSE [status |-> "error"]

\* ------------------------------------------------------------------------
\* Free-slot finder (utils/time_utils.py)
\* ------------------------------------------------------------------------
\* a variant of get_fallback_alternatives that proposes half-hour slots
\* whatever the duration of the request
get_fallback_alternatives_half_hour(original_start, original_end) ==
    [i \in 1..Len(fallback_hours) |->
        [start |-> fallback_hours[i] * 60, end |-> fallback_hours[i] * 60 + 30]]

RECURSIVE FallbackFrom(_, _, _)
FallbackFrom(i, start_dt, duration) ==
    IF i > Len(fallback_hours) THEN <<>>
    ELSE LET candidate_start == Hour(fallback_hours[i])
             candidate_end == candidate_start + duration
             rest == FallbackFrom(i + 1, start_dt, duration)
         IN  IF candidate_start # start_dt
             THEN <<Iv(candidate_start, candidate_end)>> \o rest
             ELSE rest

\* get_fallback_alternatives
get_fallback_alternatives(original_start, original_end) ==
    FallbackFrom(1, original_start, original_end - original_start)

RECURSIVE BusyPeriodsFrom(_, _)
\* lines 114-126: event['start'].get('dateTime') raises AttributeError when
\* event['start'] is a string; the error leaves the whole try block.
BusyPeriodsFrom(all_events, i) ==
    IF i > Len(all_events) THEN [raised |-> FALSE, periods |-> <<>>]
    ELSE IF all_events[i].shape = "str"
    THEN [raised |-> TRUE, periods |-> <<>>]
    ELSE LET rest == BusyPeriodsFrom(all_events, i + 1)
         IN  [raised |-> rest.raised,
              periods |-> <<Iv(all_events[i].start, all_events[i].end)>>
                          \o rest.periods]

\* index of the first busy period the slot overlaps, 0 when it is free
FirstBlocking(busy_periods, current_time, slot_end) ==
    LET hits == {i \in 1..Len(busy_periods) :
                    SlotOverlapsBusy(current_time, slot_end,
                                     busy_periods[i].start, busy_periods[i].end)}
    IN  IF hits = {} THEN 0 ELSE CHOOSE i \in hits : \A j \in hits : i <= j

RECURSIVE SearchSlots(_, _, _, _)
\* the while loop of lines 139-167
SearchSlots(current_time, duration, busy_periods, available_slots) ==
    IF ~(current_time + duration <= Hour(business_end)) THEN available_slots
    ELSE LET slot_end == current_time + duration
             b == FirstBlocking(busy_periods, current_time, slot_end)
         IN  IF b # 0
             THEN SearchSlots(busy_periods[b].end, duration, busy_periods,
                              available_slots)
             ELSE LET found == Append(available_slots,
                                      Iv(current_time, slot_end))
                  IN  IF Len(found) >= max_found THEN found
                      ELSE SearchSlots(current_time + slot_step, duration,
                                       busy_periods, found)

\* lines 132-170 on the parsed busy periods
FindFreeSlots(original_start, original_end, periods) ==
    LET found == SearchSlots(Hour(business_start),
                             original_end - original_start,
                             SortByStart(periods), <<>>)
    IN  SubSeq(found, 1, Min(top_alternatives, Len(found)))

\* get_smart_alternative_times, given what list_events returned
get_smart_alternative_times(original_start, original_end, all_events_result) ==
    LET busy == BusyPeriodsFrom(EventsOf(all_events_result), 1)
    IN  IF busy.raised
        THEN get_fallback_alternatives(original_start, original_end)
        ELSE FindFreeSlots(original_start, original_end, busy.periods)

\* create_event as one call: the conflict check when check_for_conflicts is
\* set, then the insert (lines 800-824)
create_event(cal, params, checkOk, insertOk) ==
    LET res == CheckConflictsSync(cal, params.start_time, params.end_time,
                                  checkOk)
    IN  IF params.check_for_conflicts /\ CreateReturnsConflict(res)
        THEN [result |-> [status |-> "conflict", conflicts |-> res.conflicts],
              cal |-> cal]
        ELSE [result |-> InsertResult(insertOk),
              cal |-> InsertedCalendar(cal, params.start_time,
                                       params.end_time, insertOk)]

\* update_event: the event is fetched by its id, its start and end are
\* replaced and it is written back; no conflict check is made (lines
\* 904-968)
update_event(cal, params, apiOk) ==
    IF apiOk /\ params.event_id \in cal
    THEN [result |-> [status |-> "success"],
          cal |-> (cal \ {params.event_id})
                  \cup {Iv(params.start_time, params.end_time)}]
    ELSE [result |-> [status |-> "error"], cal |-> cal]

\* ------------------------------------------------------------------------
\* Inputs: message texts, planner output, classifier output
\* ------------------------------------------------------------------------
Senders == {"u1"}

\* What process_message and handle_verification_response test of a text:
\* "yes"/"no" are in the reply word lists (main.py:198, 215), "force"
\* contains "reschedule" and "9" (main.py:97), "other" is any other text.
Texts == {"yes", "no", "force", "other"}

\* Events on the calendar at start, and the times requests ask for
InitialCalendars ==
    { {}, {Iv(870, 990)}, {Iv(720, 780), Iv(870, 990)} }

RequestTimes == {Iv(840, 900)}

\* the event an update_event action names by its event_id; an event is
\* identified by the interval it had when the planner saw it
UpdateTargets == {Iv(720, 780)}
CustomTimes == {Iv(900, 960), Iv(720, 780)}

\* The planner's actions: a create_event with start and end, or a call
\* that creates nothing (list_events)
ActionTemplates ==
    { [method |-> "create_event", event_id |-> NoEvent, start_time |-> r.start,
       end_time |-> r.end, check_for_conflicts |-> TRUE] : r \in RequestTimes }
    \cup { [method |-> "update_event", event_id |-> e, start_time |-> r.start,
            end_time |-> r.end, check_for_conflicts |-> TRUE] :
                e \in UpdateTargets, r \in RequestTimes }
    \cup { [method |-> "list_events", event_id |-> NoEvent,
            start_time |-> NoTime, end_time |-> NoTime,
            check_for_conflicts |-> TRUE] }

PlanChoices ==
    UNION { [1..n -> ActionTemplates] : n \in 0..MaxPlanLen }

Intents == {"reschedule_to_suggested", "reschedule_to_custom",
            "override_conflicts", "cancel", "unclear"}

\* suggested_time_index values the classifier may give
IndexChoices == (0 - 1)..top_alternatives

\* ------------------------------------------------------------------------
\* State
\* ------------------------------------------------------------------------
VARIABLES
    calendar,            \* the events of the Google calendar
    conversation_state,  \* main.py:60, dict keyed by sender_id
    heap,                \* the Action objects, by identity
    task,                \* per task: position and locals
    done                 \* the handling that ended in the last step, if any

vars == <<calendar, conversation_state, heap, task, done>>

Tasks == 1..MaxTasks
ActionIds == 1..MaxActions

EmptyDict == <<>>

FreeAction == [method |-> "free", event_id |-> NoEvent,
               start_time |-> NoTime, end_time |-> NoTime,
               check_for_conflicts |-> TRUE]

\* conversation_state.get(sender_id, {})
StateOf(cs, sender) == IF sender \in DOMAIN cs THEN cs[sender] ELSE EmptyDict

\* conversation_state[sender_id] = d
PutState(cs, sender, d) ==
    [s \in (DOMAIN cs) \cup {sender} |-> IF s = sender THEN d ELSE cs[s]]

\* d.get(key) used as a condition
Truthy(d, key) == key \in DOMAIN d /\ d[key]

Mode(d) ==
    IF Truthy(d, "awaiting_verification") THEN "AwaitingVerification"
    ELSE IF Truthy(d, "awaiting_conflict_resolution")
    THEN "AwaitingConflictResolution"
    ELSE "Idle"

\* a variant of lines 164-167 that stores a plan without its actions
VerificationStateEmptyPlan(action_plan) ==
    [awaiting_verification |-> TRUE, pending_action |-> <<>>]

\* main.py:164-167
VerificationState(action_plan) ==
    [awaiting_verification |-> TRUE, pending_action |-> action_plan]

\* a variant of the stored conflict state that leaves the alternatives out
ConflictStateDropsAlternatives(conflicts, alternative_times, action) ==
    [awaiting_conflict_resolution |-> TRUE,
     conflicts |-> conflicts,
     alternative_times |-> <<>>,
     original_action |-> action]

\* main.py:517-522
ConflictState(conflicts, alternative_times, action) ==
    [awaiting_conflict_resolution |-> TRUE,
     conflicts |-> conflicts,
     alternative_times |-> alternative_times,
     original_action |-> action]

\* a variant of lines 404-409 that stores the new conflicts without the
\* action under negotiation
CustomConflictStateWithoutAction(conflicts, original_action, start_time, end_time) ==
    [awaiting_conflict_resolution |-> TRUE,
     conflicts |-> conflicts,
     alternative_times |-> <<Iv(start_time, end_time)>>]

\* main.py:404-409
CustomConflictState(conflicts, original_action, start_time, end_time) ==
    [awaiting_conflict_resolution |-> TRUE,
     conflicts |-> conflicts,
     original_action |-> original_action,
     alternative_times |-> <<Iv(start_time, end_time)>>]

\* main.py:103-116, the state forced for a "reschedule ... 9" message
MockAction ==
    [method |-> "create_event", event_id |-> NoEvent,
     start_time |-> 900, end_time |-> 960, check_for_conflicts |-> TRUE]

MockState(action) ==
    [awaiting_conflict_resolution |-> TRUE,
     conflicts |-> <<[start |-> 900, end |-> 960, shape |-> "str"]>>,
     alternative_times |-> <<Iv(540, 600)>>,
     original_action |-> action]

\* ------------------------------------------------------------------------
\* Action objects
\* ------------------------------------------------------------------------
RefsOfDict(d) ==
    (IF "pending_action" \in DOMAIN d THEN SeqRange(d.pending_action) ELSE {})
    \cup (IF "original_action" \in DOMAIN d THEN {d.original_action} ELSE {})

Refs(cs, tk) ==
    UNION {RefsOfDict(cs[s]) : s \in DOMAIN cs}
    \cup UNION {SeqRange(tk[t].plan) : t \in Tasks}
    \cup {tk[t].original_action : t \in Tasks}

\* objects no longer referenced are released
Collect(h, cs, tk) ==
    [a \in ActionIds |-> IF a \in Refs(cs, tk) THEN h[a] ELSE FreeAction]

FreeIds(h) == {a \in ActionIds : h[a].method = "free"}

RECURSIVE FirstFree(_, _)
\* the n smallest unused identities, in order
FirstFree(free, n) ==
    IF n = 0 THEN <<>>
    ELSE LET m == CHOOSE x \in free : \A y \in free : x <= y
         IN  <<m>> \o FirstFree(free \ {m}, n - 1)

\* ------------------------------------------------------------------------
\* Tasks
\* ------------------------------------------------------------------------
BlankTask ==
    [pc |-> "idle", sender |-> "u1", text |-> None,
     entryMode |-> None,        \* mode of the requester when the message came
     handler |-> None,          \* "pm" fresh request, "hvr", "hcr"
     state |-> <<>>,            \* state = conversation_state.get(sender_id, {})
     plan |-> <<>>, idx |-> 0,
     requires_verification |-> FALSE,
     validation |-> <<>>,       \* conflict_result per action, if checked
     original_action |-> 0, conflicts |-> <<>>, alternative_times |-> <<>>,
     intent |-> None, index |-> 0,
     slot |-> Iv(NoTime, NoTime),  \* start_time/end_time locals
     check |-> NoResult, listing |-> NoResult,
     call |-> FreeAction,       \* params of the last service.execute call
     result |-> NoResult,
     outcome |-> None]

TypeOK ==
    /\ calendar \subseteq [start : Int, end : Int]
    /\ DOMAIN conversation_state \subseteq Senders
    /\ heap \in [ActionIds -> [method : STRING,
                               event_id : [start : Int, end : Int],
                               start_time : Int, end_time : Int,
                               check_for_conflicts : BOOLEAN]]
    /\ DOMAIN task = Tasks

Init ==
    /\ calendar \in InitialCalendars
    /\ conversation_state = EmptyDict
    /\ heap = [a \in ActionIds |-> FreeAction]
    /\ task = [t \in Tasks |-> BlankTask]
    /\ done = BlankTask

\* the task's coroutine returns
Ended(tk, outcome) ==
    [tk EXCEPT !.pc = "done", !.outcome = outcome]

\* The next state.  A task that ended leaves its locals in done (for the one
\* state that follows its last step) and its slot is free again; objects no
\* longer referenced are released.
Step(cal, cs, h, tk) ==
    LET ended == {t \in Tasks : tk[t].pc = "done"}
        live == [t \in Tasks |-> IF t \in ended THEN BlankTask ELSE tk[t]]
    IN  /\ calendar' = cal
        /\ conversation_state' = cs
        /\ task' = live
        /\ heap' = Collect(h, cs, live)
        /\ done' = IF ended = {} THEN BlankTask
                   ELSE tk[CHOOSE t \in ended : TRUE]

\* handle_conflict_resolution up to the classifier call (main.py:232-293)
HcrEntry(tk, d) ==
    LET original_action ==
            IF "original_action" \in DOMAIN d THEN d.original_action ELSE 0
    IN  [tk EXCEPT !.handler = "hcr",
                   !.state = d,
                   !.conflicts =
                       IF "conflicts" \in DOMAIN d THEN d.conflicts ELSE <<>>,
                   !.alternative_times =
                       IF "alternative_times" \in DOMAIN d
                       THEN d.alternative_times ELSE <<>>,
                   !.original_action = original_action,
                   !.pc = "hcr_classify"]

\* webhook_handler creates the task; process_message runs to its first
\* await (main.py:83, 88-136)
Receive(t, sender, text) ==
    /\ task[t].pc = "idle"
    /\ \A u \in Tasks : u < t => task[u].pc # "idle"   \* the first free slot
    /\ LET d == StateOf(conversation_state, sender)
           fresh == [BlankTask EXCEPT !.sender = sender, !.text = text,
                                      !.entryMode = Mode(d)]
       IN  IF text = "force"
           THEN /\ FreeIds(heap) # {}
                /\ LET m == FirstFree(FreeIds(heap), 1)[1]
                       mock == MockState(m)
                   IN  Step(calendar,
                            PutState(conversation_state, sender, mock),
                            [heap EXCEPT ![m] = MockAction],
                            [task EXCEPT ![t] = HcrEntry(fresh, mock)])
           ELSE IF Truthy(d, "awaiting_verification")
           THEN LET hv == [fresh EXCEPT !.handler = "hvr", !.state = d]
                IN  Step(calendar, conversation_state, heap,
                         [task EXCEPT ![t] =
                            IF text = "yes"
                            THEN [hv EXCEPT !.plan = d.pending_action,
                                            !.idx = 1, !.pc = "exec"]
                            ELSE IF text = "no"
                            THEN [hv EXCEPT !.pc = "hvr_clear"]
                            ELSE Ended(hv, "reprompt")])
           ELSE IF Truthy(d, "awaiting_conflict_resolution")
           THEN IF "original_action" \in DOMAIN d
                THEN Step(calendar, conversation_state, heap,
                          [task EXCEPT ![t] = HcrEntry(fresh, d)])
                ELSE Step(calendar,
                          PutState(conversation_state, sender, EmptyDict),
                          heap,
                          [task EXCEPT ![t] =
                             Ended([fresh EXCEPT !.handler = "hcr",
                                                 !.state = d], "lost")])
           ELSE Step(calendar, conversation_state, heap,
                     [task EXCEPT ![t] =
                        [fresh EXCEPT !.handler = "pm", !.pc = "pm_plan"]])

\* validate_calendar_actions: the indices of the create_event actions whose
\* conflict check succeeds and reports conflicts (action_planner.py:193-221)
ValidationConflicts(cal, actions, checkOk) ==
    {i \in 1..Len(actions) :
        /\ actions[i].method = "create_event"
        /\ actions[i].start_time # NoTime /\ actions[i].end_time # NoTime
        /\ LET r == CheckConflictsSync(cal, actions[i].start_time,
                                       actions[i].end_time, checkOk[i])
           IN  r.status = "success" /\ HasConflictsOf(r)}

\* validate_calendar_actions: the conflict_result obtained for each action,
\* none for an action that is not checked
ValidationResults(cal, actions, checkOk) ==
    [i \in 1..Len(actions) |->
        IF /\ actions[i].method = "create_event"
           /\ actions[i].start_time # NoTime /\ actions[i].end_time # NoTime
        THEN CheckConflictsSync(cal, actions[i].start_time,
                                actions[i].end_time, checkOk[i])
        ELSE NoResult]

\* ActionPlanner.plan, lines 139-148: the flag of the returned plan
PlanRequiresVerification(proposed, conflicting) ==
    proposed \/ conflicting # {}

\* parse, reason and plan, then main.py:161-167 or the start of
\* execute_action_plan
Plan(t, actions, proposed, checkOk) ==
    /\ task[t].pc = "pm_plan"
    /\ Cardinality(FreeIds(heap)) >= Len(actions)
    /\ LET ids == FirstFree(FreeIds(heap), Len(actions))
           h == [a \in ActionIds |->
                    IF \E i \in 1..Len(ids) : ids[i] = a
                    THEN actions[CHOOSE i \in 1..Len(ids) : ids[i] = a]
                    ELSE heap[a]]
           rv == PlanRequiresVerification(proposed,
                    ValidationConflicts(calendar, actions, checkOk))
           tk == [task[t] EXCEPT !.requires_verification = rv,
                                 !.validation =
                                     ValidationResults(calendar, actions,
                                                       checkOk)]
       IN  IF rv
           THEN Step(calendar,
                     PutState(conversation_state, task[t].sender,
                              VerificationState(ids)),
                     h,
                     [task EXCEPT ![t] =
                        Ended([tk EXCEPT !.plan = ids], "asked")])
           ELSE Step(calendar, conversation_state, h,
                     [task EXCEPT ![t] =
                        [tk EXCEPT !.plan = ids, !.idx = 1, !.pc = "exec"]])

\* ------------------------------------------------------------------------
\* execute_action_plan (main.py:469-564)
\* ------------------------------------------------------------------------
\* an insert succeeds only while the calendar has room for the event
Room(apiOk) == apiOk /\ Cardinality(calendar) < MaxEvents

\* what the caller does with the returned text: process_message sends it
\* and ends; handle_verification_response sends it and then clears the state
Returned(tk, outcome) ==
    IF tk.handler = "hvr"
    THEN [tk EXCEPT !.pc = "hvr_clear", !.outcome = outcome]
    ELSE Ended(tk, outcome)

\* the next action of the plan is handed to service.execute; for a
\* create_event with conflict checking this is the check_conflicts call
ExecBegin(t, apiOk) ==
    /\ task[t].pc = "exec"
    /\ LET tk == task[t]
       IN  IF tk.idx > Len(tk.plan)
           THEN Step(calendar, conversation_state, heap,
                     [task EXCEPT ![t] = Returned(tk, "executed")])
           ELSE LET params == heap[tk.plan[tk.idx]]
                    called == [tk EXCEPT !.call = params]
                IN  IF params.method = "update_event"
                    THEN LET r == update_event(calendar, params, apiOk)
                         IN  Step(r.cal, conversation_state, heap,
                                  [task EXCEPT ![t] =
                                     [called EXCEPT !.result = r.result,
                                                    !.idx = @ + 1]])
                    ELSE IF params.method # "create_event"
                    THEN Step(calendar, conversation_state, heap,
                              [task EXCEPT ![t] =
                                 [called EXCEPT !.result = [status |-> "success"],
                                                !.idx = @ + 1]])
                    ELSE IF EnsureIsoRaises(params.start_time, params.end_time)
                    THEN Step(calendar, conversation_state, heap,
                              [task EXCEPT ![t] =
                                 [called EXCEPT !.result = [status |-> "raised"],
                                                !.idx = @ + 1]])
                    ELSE IF params.check_for_conflicts
                    THEN Step(calendar, conversation_state, heap,
                              [task EXCEPT ![t] =
                                 [called EXCEPT
                                    !.check = CheckConflictsSync(calendar,
                                                 params.start_time,
                                                 params.end_time, apiOk),
                                    !.pc = "exec_checked"]])
                    ELSE Step(InsertedCalendar(calendar, params.start_time,
                                               params.end_time,
                                               Room(apiOk)),
                              conversation_state, heap,
                              [task EXCEPT ![t] =
                                 [called EXCEPT
                                    !.result = InsertResult(
                                        Room(apiOk)),
                                    !.idx = @ + 1]])

\* create_event continues after the conflict check: it returns status
\* conflict, and execute_action_plan asks for the day's events
\* (main.py:498-514), or it inserts the event
ExecChecked(t, apiOk) ==
    /\ task[t].pc = "exec_checked"
    /\ LET tk == task[t]
           action == tk.plan[tk.idx]
       IN  IF CreateReturnsConflict(tk.check)
           THEN Step(calendar, conversation_state, heap,
                     [task EXCEPT ![t] =
                        [tk EXCEPT
                           !.result = [status |-> "conflict"],
                           !.conflicts = tk.check.conflicts,
                           !.original_action = action,
                           !.slot = Iv(heap[action].start_time,
                                       heap[action].end_time),
                           !.listing = ListEventsSync(calendar, apiOk),
                           !.pc = "exec_alts"]])
           ELSE LET ok == Room(apiOk)
                IN  Step(InsertedCalendar(calendar, tk.call.start_time,
                                          tk.call.end_time, ok),
                         conversation_state, heap,
                         [task EXCEPT ![t] =
                            [tk EXCEPT !.result = InsertResult(ok),
                                       !.idx = @ + 1, !.pc = "exec"]])

\* a variant of lines 512-547 that stores the conflict state and goes on
\* with the next action of the plan instead of returning
ExecAltsContinues(t) ==
    /\ task[t].pc = "exec_alts"
    /\ LET tk == task[t]
           alternative_times ==
               get_smart_alternative_times(tk.slot.start, tk.slot.end,
                                           tk.listing)
       IN  Step(calendar,
                PutState(conversation_state, tk.sender,
                         ConflictState(tk.conflicts, alternative_times,
                                       tk.original_action)),
                heap,
                [task EXCEPT ![t] =
                   [tk EXCEPT !.alternative_times = alternative_times,
                              !.idx = @ + 1, !.pc = "exec"]])

\* the alternatives are computed and the conflict state is stored
\* (main.py:512-547); execute_action_plan returns the conflict message
ExecAlts(t) ==
    /\ task[t].pc = "exec_alts"
    /\ LET tk == task[t]
           alternative_times ==
               get_smart_alternative_times(tk.slot.start, tk.slot.end,
                                           tk.listing)
       IN  Step(calendar,
                PutState(conversation_state, tk.sender,
                         ConflictState(tk.conflicts, alternative_times,
                                       tk.original_action)),
                heap,
                [task EXCEPT ![t] =
                   Returned([tk EXCEPT !.alternative_times = alternative_times],
                            "conflict")])

\* handle_verification_response, lines 213 and 221
HvrClear(t) ==
    /\ task[t].pc = "hvr_clear"
    /\ Step(calendar,
            PutState(conversation_state, task[t].sender, EmptyDict),
            heap,
            [task EXCEPT ![t] =
               Ended(task[t], IF task[t].outcome = None THEN "declined"
                              ELSE task[t].outcome)])

\* ------------------------------------------------------------------------
\* handle_conflict_resolution (main.py:229-347)
\* ------------------------------------------------------------------------
\* a variant of line 352 that leaves the conflict check switched on
OverrideParamsKeepsCheck(params) ==
    params

\* create_event_ignoring_conflicts, line 352
OverrideParams(params) ==
    [params EXCEPT !.check_for_conflicts = FALSE]

\* a variant of lines 434-436 that leaves the conflict check switched on
RescheduleParamsKeepsCheck(params, start_time, end_time) ==
    [params EXCEPT !.start_time = start_time, !.end_time = end_time]

\* reschedule_to_time, lines 434-436
RescheduleParams(params, start_time, end_time) ==
    [params EXCEPT !.start_time = start_time, !.end_time = end_time,
                   !.check_for_conflicts = FALSE]

\* line 312
IndexInRange(time_index, alternative_times) ==
    0 <= time_index /\ time_index < Len(alternative_times)

\* the pending action is rewritten in place and handed to service.execute
\* (main.py:351-357, 432-443); next is the pc of the task afterwards
ExecutePending(t, tk, params, checkOk, insertOk, next) ==
    LET r == create_event(calendar, params, checkOk, Room(insertOk))
        after == [tk EXCEPT !.call = params, !.result = r.result]
    IN  Step(r.cal, conversation_state,
             [heap EXCEPT ![tk.original_action] = params],
             [task EXCEPT ![t] =
                IF next = "done" THEN Ended(after, "rescheduled")
                ELSE [after EXCEPT !.pc = next]])

\* a variant of lines 299-303 that goes on to create the event
ClassifyCancelExecutes(t) ==
    /\ task[t].pc = "hcr_classify"
    /\ LET tk == [task[t] EXCEPT !.intent = "cancel"]
       IN  ExecutePending(t, tk, heap[tk.original_action], TRUE, TRUE,
                          "hcr_clear")

\* intent cancel (lines 299-303)
ClassifyCancel(t) ==
    /\ task[t].pc = "hcr_classify"
    /\ Step(calendar, conversation_state, heap,
            [task EXCEPT ![t] = [@ EXCEPT !.intent = "cancel",
                                          !.pc = "hcr_clear"]])

\* intent override_conflicts (lines 305-307, 349-374)
ClassifyOverride(t, checkOk, insertOk) ==
    /\ task[t].pc = "hcr_classify"
    /\ LET tk == [task[t] EXCEPT !.intent = "override_conflicts"]
       IN  ExecutePending(t, tk, OverrideParams(heap[tk.original_action]),
                          checkOk, insertOk, "hcr_clear")

\* intent reschedule_to_suggested (lines 309-320)
ClassifySuggested(t, time_index, checkOk, insertOk) ==
    /\ task[t].pc = "hcr_classify"
    /\ LET tk == [task[t] EXCEPT !.intent = "reschedule_to_suggested",
                                 !.index = time_index]
       IN  IF IndexInRange(time_index, tk.alternative_times)
           THEN LET alt == tk.alternative_times[time_index + 1]
                IN  ExecutePending(t, tk,
                        RescheduleParams(heap[tk.original_action],
                                         alt.start, alt.end),
                        checkOk, insertOk, "hcr_clear")
           ELSE Step(calendar, conversation_state, heap,
                     [task EXCEPT ![t] = Ended(tk, "reprompt")])

\* intent reschedule_to_custom: the time is parsed and checked for conflicts
\* (lines 322-326, 376-392); parsed is the pair of times, or no time
ClassifyCustom(t, parsed, apiOk) ==
    /\ task[t].pc = "hcr_classify"
    /\ LET tk == [task[t] EXCEPT !.intent = "reschedule_to_custom"]
       IN  IF parsed.start = NoTime
           THEN Step(calendar, conversation_state, heap,
                     [task EXCEPT ![t] = Ended(tk, "reprompt")])
           ELSE Step(calendar, conversation_state, heap,
                     [task EXCEPT ![t] =
                        [tk EXCEPT !.slot = parsed,
                                   !.check = CheckConflictsSync(calendar,
                                                parsed.start, parsed.end, apiOk),
                                   !.pc = "hcr_custom_checked"]])

\* a variant of lines 328-344 that re-prompts without the alternatives
ClassifyUnclearDropsAlternatives(t, intent) ==
    /\ task[t].pc = "hcr_classify"
    /\ Step(calendar,
            PutState(conversation_state, task[t].sender,
                     [task[t].state EXCEPT !.alternative_times = <<>>]),
            heap,
            [task EXCEPT ![t] = Ended([task[t] EXCEPT !.intent = intent],
                                      "reprompt")])

\* a variant of lines 328-344 that clears the state like line 347 does
ClassifyUnclearClears(t, intent) ==
    /\ task[t].pc = "hcr_classify"
    /\ Step(calendar,
            PutState(conversation_state, task[t].sender, EmptyDict),
            heap,
            [task EXCEPT ![t] = Ended([task[t] EXCEPT !.intent = intent],
                                      "reprompt")])

\* intent unclear, a classifier failure or malformed output
\* (lines 328-344)
ClassifyUnclear(t, intent) ==
    /\ task[t].pc = "hcr_classify"
    /\ Step(calendar, conversation_state, heap,
            [task EXCEPT ![t] = Ended([task[t] EXCEPT !.intent = intent],
                                      "reprompt")])

\* a variant of lines 394-412 that appends the new conflicts and the custom
\* time to what the state held
CustomCheckedMerging(t, checkOk, insertOk) ==
    /\ task[t].pc = "hcr_custom_checked"
    /\ LET tk == task[t]
       IN  IF HasConflictsOf(tk.check)
           THEN Step(calendar,
                     PutState(conversation_state, tk.sender,
                              [awaiting_conflict_resolution |-> TRUE,
                               conflicts |-> tk.conflicts
                                             \o ConflictsOf(tk.check),
                               original_action |-> tk.original_action,
                               alternative_times |->
                                   Append(tk.alternative_times, tk.slot)]),
                     heap,
                     [task EXCEPT ![t] = Ended(tk, "custom_conflict")])
           ELSE ExecutePending(t, tk,
                    RescheduleParams(heap[tk.original_action],
                                     tk.slot.start, tk.slot.end),
                    checkOk, insertOk, "done")

\* handle_custom_reschedule after the conflict check (lines 394-412)
CustomChecked(t, checkOk, insertOk) ==
    /\ task[t].pc = "hcr_custom_checked"
    /\ LET tk == task[t]
       IN  IF HasConflictsOf(tk.check)
           THEN Step(calendar,
                     PutState(conversation_state, tk.sender,
                              CustomConflictState(ConflictsOf(tk.check),
                                                  tk.original_action,
                                                  tk.slot.start, tk.slot.end)),
                     heap,
                     [task EXCEPT ![t] = Ended(tk, "custom_conflict")])
           ELSE ExecutePending(t, tk,
                    RescheduleParams(heap[tk.original_action],
                                     tk.slot.start, tk.slot.end),
                    checkOk, insertOk, "done")

\* line 347
HcrClear(t) ==
    /\ task[t].pc = "hcr_clear"
    /\ Step(calendar,
            PutState(conversation_state, task[t].sender, EmptyDict),
            heap,
            [task EXCEPT ![t] = Ended(task[t], "cleared")])

\* ------------------------------------------------------------------------
\* Specification
\* ------------------------------------------------------------------------
\* no handling is in progress
Serial == \A u \in Tasks : task[u].pc = "idle"

\* a message is delivered to the webhook once the handling of the one
\* before it has ended
Deliver(t, sender, text) ==
    /\ Serial
    /\ Receive(t, sender, text)

Next ==
    \/ \E t \in Tasks, sender \in Senders, text \in Texts :
          Deliver(t, sender, text)
    \/ \E t \in Tasks, actions \in PlanChoices, proposed \in BOOLEAN,
          checkOk \in [1..MaxPlanLen -> BOOLEAN] :
          Plan(t, actions, proposed, checkOk)
    \/ \E t \in Tasks, apiOk \in BOOLEAN : ExecBegin(t, apiOk)
    \/ \E t \in Tasks, apiOk \in BOOLEAN : ExecChecked(t, apiOk)
    \/ \E t \in Tasks : ExecAlts(t)
    \/ \E t \in Tasks : HvrClear(t)
    \/ \E t \in Tasks : ClassifyCancel(t)
    \/ \E t \in Tasks, checkOk \in BOOLEAN, insertOk \in BOOLEAN :
          ClassifyOverride(t, checkOk, insertOk)
    \/ \E t \in Tasks, i \in IndexChoices, checkOk \in BOOLEAN,
          insertOk \in BOOLEAN : ClassifySuggested(t, i, checkOk, insertOk)
    \/ \E t \in Tasks, parsed \in CustomTimes \cup {Iv(NoTime, NoTime)},
          apiOk \in BOOLEAN : ClassifyCustom(t, parsed, apiOk)
    \/ \E t \in Tasks, intent \in {"unclear", "malformed"} :
          ClassifyUnclear(t, intent)
    \/ \E t \in Tasks, checkOk \in BOOLEAN, insertOk \in BOOLEAN :
          CustomChecked(t, checkOk, insertOk)
    \/ \E t \in Tasks : HcrClear(t)

Spec == Init /\ [][Next]_vars

\* ------------------------------------------------------------------------
\* Plans of several actions, messages handled one after the other
\* ------------------------------------------------------------------------
\* plans of two actions, every pair of the planner's actions
SeveralPlans == {<<a, b>> : a \in ActionTemplates, b \in ActionTemplates}

\* whether the conflict check validation makes for each action answers
ChecksOfPair == [{1, 2} -> BOOLEAN]

NextSeveral ==
    \/ \E t \in Tasks, sender \in Senders, text \in {"yes", "other"} :
          Deliver(t, sender, text)
    \/ \E t \in Tasks, actions \in SeveralPlans, proposed \in BOOLEAN,
          checkOk \in ChecksOfPair : Plan(t, actions, proposed, checkOk)
    \/ \E t \in Tasks : ExecBegin(t, TRUE)
    \/ \E t \in Tasks : ExecChecked(t, TRUE)
    \/ \E t \in Tasks : ExecAlts(t)
    \/ \E t \in Tasks : HvrClear(t)
    \/ \E t \in Tasks : ClassifyCancel(t)
    \/ \E t \in Tasks : ClassifyOverride(t, TRUE, TRUE)
    \/ \E t \in Tasks, i \in IndexChoices :
          ClassifySuggested(t, i, TRUE, TRUE)
    \/ \E t \in Tasks, parsed \in CustomTimes : ClassifyCustom(t, parsed, TRUE)
    \/ \E t \in Tasks : ClassifyUnclear(t, "unclear")
    \/ \E t \in Tasks : CustomChecked(t, TRUE, TRUE)
    \/ \E t \in Tasks : HcrClear(t)

SpecSeveral == Init /\ [][NextSeveral]_vars

\* ------------------------------------------------------------------------
\* Messages of one requester handled by interleaved tasks
\* ------------------------------------------------------------------------
\* a variant of the webhook that takes a message only when no handling is
\* under way
ArriveWhenQuiet(t, sender, text) == Serial /\ Receive(t, sender, text)

\* webhook_handler starts a task for every message at once
\* (asyncio.create_task, main.py:83), whatever the tasks before it are doing:
\* conversation_state is a plain dict without a lock (main.py:59-60)
Arrive(t, sender, text) ==
    /\ task[t].pc = "idle"
    /\ Receive(t, sender, text)

\* the replies and the planner output of the interleaved runs: a plan of one
\* create_event that the planner wants verified
RaceTexts == {"yes", "no"}

RacePlans ==
    {<<a>> : a \in {x \in ActionTemplates : x.method = "create_event"}}

AllOk == [i \in 1..MaxPlanLen |-> TRUE]

NextRace ==
    \/ \E t \in Tasks, sender \in Senders, text \in RaceTexts :
          Arrive(t, sender, text)
    \/ \E t \in Tasks, actions \in RacePlans : Plan(t, actions, TRUE, AllOk)
    \/ \E t \in Tasks : ExecBegin(t, TRUE)
    \/ \E t \in Tasks : ExecChecked(t, TRUE)
    \/ \E t \in Tasks : ExecAlts(t)
    \/ \E t \in Tasks : HvrClear(t)
    \/ \E t \in Tasks : ClassifyCancel(t)
    \/ \E t \in Tasks : ClassifyUnclear(t, "unclear")

SpecRace == Init /\ [][NextRace]_vars

\* ------------------------------------------------------------------------
\* The conflict detector and the free-slot finder applied to one request
\* ------------------------------------------------------------------------
\* Events of the target day and the requests, for every combination
FinderBusyPool ==
    {Iv(540, 570), Iv(600, 660), Iv(630, 700), Iv(870, 990), Iv(1020, 1080)}

FinderCalendars == SUBSET FinderBusyPool

FinderRequests == {Iv(600, 630), Iv(540, 600), Iv(660, 720), Iv(840, 960)}

\* An event as the Calendar API itself returns it, 'start' and 'end' being
\* {'dateTime': ...} objects: the shape the parsing of time_utils.py:114-126
\* reads.
RawEvent(ev) == [start |-> ev.start, end |-> ev.end, shape |-> "dict"]

RawEvents(evs) == [i \in 1..Len(evs) |-> RawEvent(evs[i])]

\* calendar_service.list_events as get_smart_alternative_times calls it
\* (time_utils.py:104-110): the connector's listing, or a service that hands
\* the API's events on unformatted
ListEventsOf(cal, apiOk, raw) ==
    IF raw /\ apiOk
    THEN [status |-> "success", events |-> RawEvents(SetToSortedSeq(cal))]
    ELSE ListEventsSync(cal, apiOk)

InitFinder ==
    /\ calendar \in FinderCalendars
    /\ conversation_state = EmptyDict
    /\ heap = [a \in ActionIds |-> FreeAction]
    /\ done = BlankTask
    /\ \E request \in FinderRequests :
          task = [t \in Tasks |->
                    IF t = 1
                    THEN [BlankTask EXCEPT !.pc = "finder_check",
                                           !.handler = "finder",
                                           !.slot = request]
                    ELSE BlankTask]

\* check_conflicts(start_time, end_time)
FinderCheck(t, apiOk) ==
    /\ task[t].pc = "finder_check"
    /\ Step(calendar, conversation_state, heap,
            [task EXCEPT ![t] =
               [task[t] EXCEPT
                  !.check = CheckConflictsSync(calendar, task[t].slot.start,
                                               task[t].slot.end, apiOk),
                  !.pc = "finder_list"]])

\* the listing of the target day (time_utils.py:104-110)
FinderList(t, apiOk, raw) ==
    /\ task[t].pc = "finder_list"
    /\ Step(calendar, conversation_state, heap,
            [task EXCEPT ![t] =
               [task[t] EXCEPT !.listing = ListEventsOf(calendar, apiOk, raw),
                               !.pc = "finder_search"]])

\* the rest of get_smart_alternative_times (time_utils.py:112-175)
FinderSearch(t) ==
    /\ task[t].pc = "finder_search"
    /\ Step(calendar, conversation_state, heap,
            [task EXCEPT ![t] =
               Ended([task[t] EXCEPT
                        !.alternative_times =
                            get_smart_alternative_times(task[t].slot.start,
                                                        task[t].slot.end,
                                                        task[t].listing)],
                     "alternatives")])

NextFinder ==
    \/ \E t \in Tasks, apiOk \in BOOLEAN : FinderCheck(t, apiOk)
    \/ \E t \in Tasks, apiOk \in BOOLEAN, raw \in BOOLEAN :
          FinderList(t, apiOk, raw)
    \/ \E t \in Tasks : FinderSearch(t)

SpecFinder == InitFinder /\ [][NextFinder]_vars

\* ------------------------------------------------------------------------
\* Time normalisation applied to a pair of time strings, twice
\* ------------------------------------------------------------------------
\* A time string is a sequence of characters.
MaxStrLen == 3

TimeChars == {"1", "T", "Z", "+", "-"}

RECURSIVE StringsOfLen(_)
StringsOfLen(n) ==
    IF n = 0 THEN {<<>>}
    ELSE {Append(w, c) : w \in StringsOfLen(n - 1), c \in TimeChars}

ShortStrings == UNION {StringsOfLen(n) : n \in 1..MaxStrLen}

\* times as the planner and the parsers write them: with and without an
\* offset, with and without a time part
SampleStrings ==
    { <<"2", "0", "2", "5", "-", "0", "6", "-", "1", "0", "T", "1", "4", ":", "0", "0", ":", "0", "0">>,
      <<"2", "0", "2", "5", "-", "0", "6", "-", "1", "0", "T", "1", "4", ":", "0", "0", ":", "0", "0", "Z">>,
      <<"2", "0", "2", "5", "-", "0", "6", "-", "1", "0", "T", "1", "4", ":", "0", "0", ":", "0", "0", "+", "0", "1", ":", "0", "0">>,
      <<"2", "0", "2", "5", "-", "0", "6", "-", "1", "0", "T", "1", "4", ":", "0", "0", ":", "0", "0", "-", "0", "5", ":", "0", "0">>,
      <<"2", "0", "2", "5", "-", "0", "6", "-", "1", "0">>,
      <<"1", "4", ":", "0", "0">>,
      <<"2", "0", "2", "5", "-", "0", "6", "-", "1", "0", "T", "1", "4">> }

\* str.endswith('Z'), c in str, c in str[-6:]
EndsWith(str, c) == Len(str) > 0 /\ str[Len(str)] = c

Contains(str, c) == \E i \in 1..Len(str) : str[i] = c

LastSix(str) ==
    IF Len(str) <= 6 THEN str ELSE SubSeq(str, Len(str) - 5, Len(str))

\* a variant of the formatting of one time that appends 'Z' to every string
\* without an offset, already ending in 'Z' or not
EnsureIsoOneAlwaysAppends(str) ==
    IF Contains(str, "+") \/ Contains(LastSix(str), "-")
    THEN str
    ELSE str \o <<"Z">>

\* _ensure_iso_format on one of its two times (lines 85-93 and 95-102)
EnsureIsoOne(str) ==
    IF EndsWith(str, "Z") \/ Contains(str, "+") \/ Contains(LastSix(str), "-")
    THEN str
    ELSE IF Contains(str, "T")
         THEN (IF ~EndsWith(str, "Z") THEN str \o <<"Z">> ELSE str)
         ELSE str

\* _ensure_iso_format on a pair of non-empty times
EnsureIsoFormat(pair) ==
    [start |-> EnsureIsoOne(pair.start), end |-> EnsureIsoOne(pair.end)]

\* pairs of non-empty time strings: every short string against every sample
TimePairs ==
    {[start |-> x, end |-> y] : x \in ShortStrings \cup SampleStrings,
                                y \in SampleStrings}
    \cup {[start |-> y, end |-> x] : x \in ShortStrings, y \in SampleStrings}

InitNormalize ==
    /\ calendar = {}
    /\ conversation_state = EmptyDict
    /\ heap = [a \in ActionIds |-> FreeAction]
    /\ done = BlankTask
    /\ \E pair \in TimePairs :
          task = [t \in Tasks |->
                    IF t = 1
                    THEN [BlankTask EXCEPT !.pc = "normalize",
                                           !.handler = "normalize",
                                           !.slot = pair]
                    ELSE BlankTask]

\* the first call: validate_calendar_actions (action_planner.py:201-204)
\* writes the formatted times back into the action
NormalizeOnce(t) ==
    /\ task[t].pc = "normalize"
    /\ LET out == EnsureIsoFormat(task[t].slot)
       IN  Step(calendar, conversation_state, heap,
                [task EXCEPT ![t] =
                   [task[t] EXCEPT
                      !.slot = out,
                      !.result = [status |-> "normalized",
                                  start |-> out.start, end |-> out.end],
                      !.pc = "normalize_again"]])

\* a later call on the formatted times (check_conflicts, create_event)
NormalizeAgain(t) ==
    /\ task[t].pc = "normalize_again"
    /\ Step(calendar, conversation_state, heap,
            [task EXCEPT ![t] =
               Ended([task[t] EXCEPT !.slot = EnsureIsoFormat(task[t].slot)],
                     "normalized")])

NextNormalize ==
    \/ \E t \in Tasks : NormalizeOnce(t)
    \/ \E t \in Tasks : NormalizeAgain(t)

SpecNormalize == InitNormalize /\ [][NextNormalize]_vars

\* ------------------------------------------------------------------------
\* The search loop of the finder, one iteration at a time
\* ------------------------------------------------------------------------
\* requests of 30, 60 and 120 minutes and one of no duration
LoopRequests == FinderRequests \cup {Iv(600, 600)}

\* the locals at the head of the loop (time_utils.py:112-138): index is
\* current_time, conflicts the sorted busy_periods, alternative_times the
\* available_slots
InitLoop ==
    /\ calendar \in FinderCalendars
    /\ conversation_state = EmptyDict
    /\ heap = [a \in ActionIds |-> FreeAction]
    /\ done = BlankTask
    /\ \E request \in LoopRequests :
          task = [t \in Tasks |->
                    IF t = 1
                    THEN [BlankTask EXCEPT
                            !.pc = "loop", !.handler = "finder",
                            !.slot = request,
                            !.listing = ListEventsOf(calendar, TRUE, TRUE),
                            !.conflicts =
                                SortByStart(SetToSortedSeq(calendar)),
                            !.index = Hour(business_start)]
                    ELSE BlankTask]

\* a variant of the loop body's jump that restarts at the start of the
\* blocking period
JumpToBusyStart(busy_period) == busy_period.start

\* line 149: current_time = busy_end
JumpTarget(busy_period) == busy_period.end

\* the loop test and one pass through the body (lines 139-167), or the
\* return of line 170 when the loop has ended
LoopIteration(t) ==
    /\ task[t].pc = "loop"
    /\ LET tk == task[t]
           duration == tk.slot.end - tk.slot.start
           current_time == tk.index
           slot_end == current_time + duration
           b == FirstBlocking(tk.conflicts, current_time, slot_end)
           found == Append(tk.alternative_times, Iv(current_time, slot_end))
           return(slots) ==
               Ended([tk EXCEPT !.alternative_times =
                          SubSeq(slots, 1, Min(top_alternatives, Len(slots)))],
                     "alternatives")
       IN  IF ~(current_time + duration <= Hour(business_end))
           THEN Step(calendar, conversation_state, heap,
                     [task EXCEPT ![t] = return(tk.alternative_times)])
           ELSE IF b # 0
           THEN Step(calendar, conversation_state, heap,
                     [task EXCEPT ![t] =
                        [tk EXCEPT !.index = JumpTarget(tk.conflicts[b])]])
           ELSE IF Len(found) >= max_found
           THEN Step(calendar, conversation_state, heap,
                     [task EXCEPT ![t] = return(found)])
           ELSE Step(calendar, conversation_state, heap,
                     [task EXCEPT ![t] =
                        [tk EXCEPT !.alternative_times = found,
                                   !.index = current_time + slot_step]])

NextLoop == \E t \in Tasks : LoopIteration(t)

\* the loop is ordinary sequential code: it keeps running until it returns
SpecLoop == InitLoop /\ [][NextLoop]_vars /\ WF_vars(NextLoop)

\* ------------------------------------------------------------------------
\* find_free_time applied to one day (connectors/calendar_api.py:318-521)
\* ------------------------------------------------------------------------
day_start_hour == 8         \* calendar_api.py:378
day_end_hour == 20          \* calendar_api.py:379

RECURSIVE FreeBetween(_, _, _, _)
\* the loop over busy_times (lines 472-490), from index i on: the slots it
\* appends and the current_time it ends with
FreeBetween(busy_times, i, current_time, duration_minutes) ==
    IF i > Len(busy_times)
    THEN [free_slots |-> <<>>, current_time |-> current_time]
    ELSE LET current_busy_end == busy_times[i].end
             now == IF current_busy_end > current_time
                    THEN current_busy_end ELSE current_time
             here == IF /\ i + 1 <= Len(busy_times)
                        /\ busy_times[i + 1].start - now >= duration_minutes
                     THEN <<Iv(now, busy_times[i + 1].start)>>
                     ELSE <<>>
             rest == FreeBetween(busy_times, i + 1, now, duration_minutes)
         IN  [free_slots |-> here \o rest.free_slots,
              current_time |-> rest.current_time]

\* lines 447-500: the free slots between start_dt and end_dt
FreeSlotsOf(events, start_dt, end_dt, duration_minutes) ==
    LET busy_times == SortByStart(events)
        first_busy_start ==
            IF busy_times # <<>> THEN busy_times[1].start ELSE end_dt
        first == IF /\ busy_times = <<>> \/ busy_times[1].start > start_dt
                    /\ first_busy_start - start_dt >= duration_minutes
                 THEN <<Iv(start_dt, first_busy_start)>>
                 ELSE <<>>
        between == FreeBetween(busy_times, 1, start_dt, duration_minutes)
        last == IF /\ between.current_time < end_dt
                   /\ end_dt - between.current_time >= duration_minutes
                THEN <<Iv(between.current_time, end_dt)>>
                ELSE <<>>
    IN  first \o between.free_slots \o last

\* find_free_time for a date, after the listing (lines 402-521)
find_free_time(listing, duration_minutes) ==
    IF listing.status # "success"
    THEN [status |-> "error"]
    ELSE [status |-> "success",
          free_slots |-> FreeSlotsOf(ListedIntervals(listing),
                                     Hour(day_start_hour), Hour(day_end_hour),
                                     duration_minutes)]

\* events inside 08:00-20:00: one at the start of the range, touching,
\* overlapping and nested ones, and the minimum durations asked for
FreeBusyPool ==
    {Iv(480, 540), Iv(540, 570), Iv(600, 700), Iv(630, 660), Iv(650, 720),
     Iv(870, 990), Iv(1140, 1200)}

FreeDurations == {30, 60, 180}

InitFree ==
    /\ calendar \in SUBSET FreeBusyPool
    /\ conversation_state = EmptyDict
    /\ heap = [a \in ActionIds |-> FreeAction]
    /\ done = BlankTask
    /\ \E duration_minutes \in FreeDurations :
          task = [t \in Tasks |->
                    IF t = 1
                    THEN [BlankTask EXCEPT !.pc = "free_list",
                                           !.handler = "find_free_time",
                                           !.index = duration_minutes]
                    ELSE BlankTask]

\* the listing of the range (lines 397-408)
FreeList(t, apiOk) ==
    /\ task[t].pc = "free_list"
    /\ Step(calendar, conversation_state, heap,
            [task EXCEPT ![t] =
               [task[t] EXCEPT !.listing = ListEventsSync(calendar, apiOk),
                               !.pc = "free_slots"]])

\* the slots are computed and returned (lines 410-521)
FreeCompute(t) ==
    /\ task[t].pc = "free_slots"
    /\ Step(calendar, conversation_state, heap,
            [task EXCEPT ![t] =
               Ended([task[t] EXCEPT
                        !.result = find_free_time(task[t].listing,
                                                  task[t].index)],
                     "free_time")])

NextFree ==
    \/ \E t \in Tasks, apiOk \in BOOLEAN : FreeList(t, apiOk)
    \/ \E t \in Tasks : FreeCompute(t)

SpecFree == InitFree /\ [][NextFree]_vars

\* ------------------------------------------------------------------------
\* Properties
\* ------------------------------------------------------------------------
\* the requester's state right after a handling ended
StateAfter == StateOf(conversation_state, done.sender)

\* every task record of the current state, the one that just ended included
Handlings == {done} \cup {task[t] : t \in Tasks}

\* C1: no slot returned by get_smart_alternative_times overlaps a busy
\* interval of the target day: for every returned slot [start, end) and
\* every event b the calendar listed for that day, never
\* (b.start < end and b.end > start).
C1_FinderSlotsAvoidBusy ==
    \A tk \in Handlings :
        tk.outcome = "conflict" =>
            \A i \in 1..Len(tk.alternative_times),
               j \in 1..Len(EventsOf(tk.listing)) :
                LET slot == tk.alternative_times[i]
                    b == EventsOf(tk.listing)[j]
                IN  ~(b.start < slot.end /\ b.end > slot.start)

\* C2: a message that arrives while the requester's state is
\* AwaitingVerification is handled by handle_verification_response, one
\* that arrives in AwaitingConflictResolution by
\* handle_conflict_resolution on the stored state, and neither is planned
\* as a fresh request; there is one state entry per requester.
C2_RepliesRoutedByState ==
    \A tk \in Handlings :
        /\ tk.entryMode = "AwaitingVerification" => tk.handler = "hvr"
        /\ tk.entryMode = "AwaitingConflictResolution" => tk.handler = "hcr"

\* the replies the transition table sends back to Idle
ReturnsToIdle(tk) ==
    \/ tk.intent \in {"cancel", "override_conflicts"}
    \/ /\ tk.intent = "reschedule_to_suggested"
       /\ 0 <= tk.index /\ tk.index < Len(tk.alternative_times)
    \/ /\ tk.intent = "reschedule_to_custom"
       /\ tk.slot.start # NoTime
       /\ tk.check.status = "success" /\ ~tk.check.has_conflicts

C4_ConflictAfterYesIsStored ==
    (done.handler = "hvr" /\ done.text = "yes"
     /\ done.result.status = "conflict") =>
        /\ Mode(StateAfter) = "AwaitingConflictResolution"
        /\ StateAfter.conflicts = done.conflicts
        /\ StateAfter.alternative_times = done.alternative_times
        /\ StateAfter.original_action = done.original_action

\* C5: when a plan that needs no verification is executed for an Idle
\* requester and a create_event returns status conflict, the state becomes
\* AwaitingConflictResolution with that action as the pending action, the
\* conflicts create_event returned, and the finder's output as alternatives.
C5_ConflictOnDirectExecutionIsStored ==
    (done.handler = "pm" /\ done.entryMode = "Idle"
     /\ ~done.requires_verification /\ done.result.status = "conflict") =>
        /\ Mode(StateAfter) = "AwaitingConflictResolution"
        /\ StateAfter.original_action = done.plan[done.idx]
        /\ heap[StateAfter.original_action] = done.call
        /\ StateAfter.conflicts = done.check.conflicts
        /\ StateAfter.alternative_times =
               get_smart_alternative_times(done.call.start_time,
                                           done.call.end_time, done.listing)

C5_Witness ==
    /\ done.handler = "pm" /\ done.entryMode = "Idle"
    /\ ~done.requires_verification /\ done.result.status = "conflict"
    /\ Mode(StateAfter) = "AwaitingConflictResolution"
    /\ Len(StateAfter.conflicts) > 0
    /\ Len(StateAfter.alternative_times) > 0

\* C6: in AwaitingConflictResolution, when the intent is
\* reschedule_to_custom and the custom time has no conflicts, the pending
\* action is executed with its start and end rewritten to the custom time
\* and the conflict check disabled, and after the handling the requester's
\* state is Idle with every field cleared.  (Stated for replies that reach
\* the handler through the routing of main.py:127-130.)
C6_CustomFreeReturnsToIdle ==
    (done.handler = "hcr" /\ done.intent = "reschedule_to_custom"
     /\ done.entryMode = "AwaitingConflictResolution" /\ done.text # "force"
     /\ Mode(done.state) = "AwaitingConflictResolution"
     /\ done.slot.start # NoTime
     /\ done.check.status = "success" /\ ~done.check.has_conflicts) =>
        /\ done.call.start_time = done.slot.start
        /\ done.call.end_time = done.slot.end
        /\ ~done.call.check_for_conflicts
        /\ StateAfter = EmptyDict

\* a step of task t that leaves position pc
Leaves(t, pc) == task[t].pc = pc /\ task'[t] # task[t]

\* C7: in AwaitingConflictResolution, when the intent is
\* reschedule_to_custom and the custom time still conflicts, the mode stays
\* AwaitingConflictResolution, the pending action is kept as it was, and
\* conflicts and alternatives hold the data of the new conflict check only:
\* the conflicts it found and the time it checked.
C7_CustomConflictReplacesData ==
    [][\A t \in Tasks :
        (Leaves(t, "hcr_custom_checked")
         /\ "has_conflicts" \in DOMAIN task[t].check
         /\ task[t].check.has_conflicts) =>
            LET after == StateOf(conversation_state', task[t].sender)
                pending == task[t].state.original_action
            IN  /\ Mode(after) = "AwaitingConflictResolution"
                /\ after.original_action = pending
                /\ heap'[pending] = heap[pending]
                /\ after.conflicts = task[t].check.conflicts
                /\ after.alternative_times = <<task[t].slot>>
                /\ DOMAIN after = {"awaiting_conflict_resolution",
                                   "conflicts", "alternative_times",
                                   "original_action"}]_vars

C7_Witness ==
    /\ done.handler = "hcr" /\ done.intent = "reschedule_to_custom"
    /\ done.outcome = "custom_conflict"
    /\ Mode(StateAfter) = "AwaitingConflictResolution"
    /\ StateAfter.conflicts # done.conflicts
    /\ StateAfter.alternative_times # done.alternative_times
    /\ StateAfter.original_action = done.original_action

\* C8: in AwaitingConflictResolution, when the intent is
\* reschedule_to_suggested(i) with 0 <= i < len(alternatives), the pending
\* action is executed with its start and end rewritten to alternatives[i]
\* and the conflict check disabled, and after the handling the requester's
\* state is Idle.
C8_SuggestedInRangeReschedules ==
    (done.handler = "hcr" /\ done.intent = "reschedule_to_suggested"
     /\ Mode(done.state) = "AwaitingConflictResolution"
     /\ 0 <= done.index /\ done.index < Len(done.alternative_times)) =>
        /\ done.call.method = "create_event"
        /\ done.call.start_time = done.alternative_times[done.index + 1].start
        /\ done.call.end_time = done.alternative_times[done.index + 1].end
        /\ ~done.call.check_for_conflicts
        /\ done.result.status \in {"success", "error"}
        /\ StateAfter = EmptyDict

C8_Witness ==
    /\ done.handler = "hcr" /\ done.intent = "reschedule_to_suggested"
    /\ done.index = 1 /\ Len(done.alternative_times) > 1
    /\ done.result.status = "success"
    /\ Iv(done.alternative_times[2].start, done.alternative_times[2].end)
           \in calendar
    /\ StateAfter = EmptyDict

\* C9: whenever reschedule_to_suggested(i) executes the pending action with
\* the conflict check disabled, alternatives[i] overlaps none of the
\* conflicts stored in the same state.  (Stated for replies that reach the
\* handler through the routing of main.py:127-130.)
C9_SuggestedSlotVerifiedFree ==
    (done.handler = "hcr" /\ done.intent = "reschedule_to_suggested"
     /\ done.entryMode = "AwaitingConflictResolution" /\ done.text # "force"
     /\ 0 <= done.index /\ done.index < Len(done.alternative_times)
     /\ ~done.call.check_for_conflicts) =>
        \A j \in 1..Len(done.conflicts) :
            LET slot == done.alternative_times[done.index + 1]
                b == done.conflicts[j]
            IN  ~(b.start < slot.end /\ b.end > slot.start)

\* C10: in AwaitingConflictResolution, when the intent is
\* override_conflicts, the pending action is executed again with
\* check_for_conflicts = False and nothing else changed, the create does not
\* return status conflict, and after the handling the requester's state is
\* Idle.
C10_OverrideSkipsCheck ==
    [][\A t \in Tasks :
        /\ (Leaves(t, "hcr_classify")
            /\ task'[t].intent = "override_conflicts") =>
              LET pending == task[t].state.original_action
              IN  /\ task'[t].call =
                        [heap[pending] EXCEPT !.check_for_conflicts = FALSE]
                  /\ heap'[pending] = task'[t].call
                  /\ task'[t].result.status \in {"success", "error"}
        /\ (Leaves(t, "hcr_clear")
            /\ task[t].intent = "override_conflicts") =>
              StateOf(conversation_state', task[t].sender) = EmptyDict
        /\ (task[t].intent = "override_conflicts"
            /\ task[t].pc # "idle" /\ task'[t].pc = "idle") =>
              task[t].pc = "hcr_clear"]_vars

C10_Witness ==
    /\ done.handler = "hcr" /\ done.intent = "override_conflicts"
    /\ Mode(done.state) = "AwaitingConflictResolution"
    /\ done.result.status = "success"
    /\ Len(done.conflicts) > 0
    /\ \E b \in calendar :
          /\ b # Iv(done.call.start_time, done.call.end_time)
          /\ b.start < done.call.end_time /\ b.end > done.call.start_time
    /\ Iv(done.call.start_time, done.call.end_time) \in calendar
    /\ StateAfter = EmptyDict

\* C11: when the requester declines, by a "no" reply to a verification
\* prompt or by intent cancel in AwaitingConflictResolution, no calendar
\* call is made for the pending action, the action is dropped, and the
\* requester's state is Idle after the handling.
C11_DeclineDiscardsPending ==
    ((done.handler = "hvr" /\ done.text = "no")
     \/ (done.handler = "hcr" /\ done.intent = "cancel")) =>
        /\ done.call = FreeAction
        /\ done.result = NoResult
        /\ done.check = NoResult /\ done.listing = NoResult
        /\ \A a \in RefsOfDict(done.state) : heap[a] = FreeAction
        /\ StateAfter = EmptyDict

C11_Witness ==
    /\ done.handler = "hcr" /\ done.intent = "cancel"
    /\ done.entryMode = "AwaitingConflictResolution" /\ done.text # "force"
    /\ RefsOfDict(done.state) # {}
    /\ StateAfter = EmptyDict

C13_FailureKeepsState ==
    (done.handler \in {"hvr", "hcr"} /\ Mode(done.state) # "Idle"
     /\ done.entryMode = Mode(done.state) /\ done.text # "force"
     /\ done.call # FreeAction
     /\ done.result.status \in {"error", "raised"}) =>
        /\ Mode(StateAfter) = Mode(done.state)
        /\ RefsOfDict(StateAfter) = RefsOfDict(done.state)

\* the positions inside execute_action_plan
Executing == {"exec", "exec_checked", "exec_alts"}

\* C14: a plan that requires verification is stored as the pending action
\* and not executed by the handling that planned it; while it is stored its
\* actions are not altered; a stored plan is executed only for an
\* affirmative reply, and what is executed then is the stored plan, action
\* by action.
C14_VerifiedPlanWaitsForYes ==
    [][/\ (done'.handler = "pm" /\ done'.requires_verification) =>
            LET after == StateOf(conversation_state', done'.sender)
            IN  /\ Mode(after) = "AwaitingVerification"
                /\ after.pending_action = done'.plan
                /\ \A i \in 1..Len(done'.plan) :
                      heap'[done'.plan[i]] \in ActionTemplates
                /\ done'.call = FreeAction
                /\ calendar' = calendar
       /\ \A t \in Tasks :
            /\ (task'[t].pc \in Executing /\ task'[t].handler = "pm") =>
                  ~task'[t].requires_verification
            /\ (task'[t].pc \in Executing /\ task'[t].handler # "pm") =>
                  /\ task'[t].handler = "hvr" /\ task'[t].text = "yes"
                  /\ task'[t].plan = task'[t].state.pending_action
            /\ (Leaves(t, "exec") /\ task[t].handler = "hvr"
                /\ task[t].idx <= Len(task[t].plan)) =>
                  task'[t].call = heap[task[t].state.pending_action[task[t].idx]]
       /\ \A s \in DOMAIN conversation_state :
            Mode(conversation_state[s]) = "AwaitingVerification" =>
                \A a \in RefsOfDict(conversation_state[s]) :
                    heap'[a] \in {heap[a], FreeAction}]_vars

C14_Witness ==
    /\ done.handler = "hvr" /\ done.text = "yes"
    /\ Len(done.state.pending_action) > 0
    /\ done.plan = done.state.pending_action
    /\ done.call.method = "create_event"
    /\ done.result.status = "success"
    /\ Iv(done.call.start_time, done.call.end_time) \in calendar

\* an action that changes the calendar (create or update of an event with a
\* start and an end) whose new time overlaps an event other than the one it
\* names
ConflictsWithExisting(a, cal) ==
    /\ a.method \in {"create_event", "update_event"}
    /\ a.start_time # NoTime /\ a.end_time # NoTime
    /\ a.method = "update_event" => a.event_id \in cal
    /\ \E b \in cal : /\ b # a.event_id
                      /\ InQueryRange(b, a.start_time, a.end_time)

\* the plan of tk has just been returned by the planner: nothing of it has
\* run and the calendar is the one validation saw
JustPlanned(tk) ==
    /\ tk.handler = "pm"
    /\ \/ tk.pc = "exec" /\ tk.idx = 1
       \/ tk.outcome = "asked"

\* C15: a plan returned by the planner has requires_verification = true
\* whenever one of its calendar-mutating actions (create or update of an
\* event with start and end) conflicts with an existing event, whatever the
\* planner proposed.  (Stated for plans whose conflict checks, where made,
\* answered without an error.)
C15_ConflictForcesVerification ==
    \A tk \in Handlings :
        (/\ JustPlanned(tk)
         /\ \A i \in 1..Len(tk.validation) :
                tk.validation[i].status # "error"
         /\ \E i \in 1..Len(tk.plan) :
                ConflictsWithExisting(heap[tk.plan[i]], calendar))
            => tk.requires_verification

RuleOverlap(b, s, e) == b.start < e /\ b.end > s

\* the busy periods the finder builds from a listing, sorted (lines 112-129)
BusyOf(tk) == SortByStart(BusyPeriodsFrom(EventsOf(tk.listing), 1).periods)

\* the finder reached its search loop: the listing was parsed without error
Searched(tk) ==
    /\ tk.handler = "finder" /\ tk.outcome = "alternatives"
    /\ ~BusyPeriodsFrom(EventsOf(tk.listing), 1).raised

\* candidate slots of the search for a duration: on the step grid of the
\* business window and at the end of each busy period
Candidates(tk) ==
    LET duration == tk.slot.end - tk.slot.start
        starts == {Hour(business_start) + slot_step * k : k \in 0..18}
                  \cup {b.end : b \in SeqRange(BusyOf(tk))}
    IN  {Iv(st, st + duration) : st \in starts}

C18_AlternativesStrictlyIncreasing ==
    (done.handler = "finder" /\ done.outcome = "alternatives") =>
        \A i \in 1..Len(done.alternative_times) :
            \A j \in 1..Len(done.alternative_times) :
                i < j => done.alternative_times[i].start
                         < done.alternative_times[j].start

\* three slots found by the search, one of them after a jump over a busy
\* period
C18_Witness ==
    /\ Searched(done)
    /\ Len(done.alternative_times) = top_alternatives
    /\ \E i \in 2..Len(done.alternative_times) :
          /\ done.alternative_times[i].start
             > done.alternative_times[i - 1].start + slot_step
          /\ \E b \in SeqRange(BusyOf(done)) :
                b.end = done.alternative_times[i].start

\* C19: every slot the finder returns, from the search or from the fallback,
\* has end - start >= the duration of the original request.
C19_SlotsLastTheDuration ==
    (done.handler = "finder" /\ done.outcome = "alternatives") =>
        \A i \in 1..Len(done.alternative_times) :
            done.alternative_times[i].end - done.alternative_times[i].start
            >= done.slot.end - done.slot.start

\* the fallback answered a two-hour request
C19_Witness ==
    /\ done.handler = "finder" /\ done.outcome = "alternatives"
    /\ BusyPeriodsFrom(EventsOf(done.listing), 1).raised
    /\ done.slot.end - done.slot.start = 120
    /\ Len(done.alternative_times) = 3
    /\ done.alternative_times
         = get_fallback_alternatives(done.slot.start, done.slot.end)

\* the finder answered for a day whose only event is 10:00-11:00, listed
\* without an API error, and a conflicting request of 30 minutes
OneBusyHalfHourCase(tk) ==
    /\ tk.handler = "finder" /\ tk.outcome = "alternatives"
    /\ calendar = {Iv(Hour(10), Hour(11))}
    /\ tk.check.status = "success" /\ tk.check.has_conflicts
    /\ tk.listing.status = "success"
    /\ tk.slot.end - tk.slot.start = 30

\* C20: with exactly one busy interval 10:00-11:00 on the target day, a
\* requested duration of 30 minutes, the business window 09:00-18:00 and a
\* step of 30 minutes, the finder returns exactly
\* [09:00-09:30, 09:30-10:00, 11:00-11:30].
C20_OneBusyIntervalExample ==
    OneBusyHalfHourCase(done) =>
        done.alternative_times
          = <<Iv(Hour(9), Hour(9) + 30), Iv(Hour(9) + 30, Hour(10)),
              Iv(Hour(11), Hour(11) + 30)>>

\* the same, for a listing whose events have the API's shape
C20_SearchOnParsedEvents ==
    (OneBusyHalfHourCase(done) /\ Searched(done)) =>
        done.alternative_times
          = <<Iv(Hour(9), Hour(9) + 30), Iv(Hour(9) + 30, Hour(10)),
              Iv(Hour(11), Hour(11) + 30)>>

C20_SearchCase == OneBusyHalfHourCase(done) /\ Searched(done)

\* the heading execute_action_plan puts over the alternatives it offers in
\* the conflict message (main.py:536-540); no heading without alternatives
AlternativesHeading(alternative_times) ==
    IF Len(alternative_times) > 0
    THEN "Here are some available alternative times:"
    ELSE None

\* the keys of the conflict state execute_action_plan stores (main.py:517-522)
ConflictStateKeys ==
    {"awaiting_conflict_resolution", "conflicts", "alternative_times",
     "original_action"}

\* execute_action_plan stored and offered alternatives that came from
\* get_fallback_alternatives only
OfferedFallbackOnly(tk) ==
    /\ tk.outcome = "conflict"
    /\ BusyPeriodsFrom(EventsOf(tk.listing), 1).raised
    /\ Len(tk.alternative_times) > 0

\* C21: when the alternatives stored and offered were produced by the
\* fallback only, the stored state or the prompt marks them as unverified:
\* the state carries a key beyond those of a searched offer, or the heading
\* differs from the one that announces available times.
C21_FallbackMarkedUnverified ==
    (OfferedFallbackOnly(done) /\ done.text # "force") =>
        \/ DOMAIN StateAfter \ ConflictStateKeys # {}
        \/ AlternativesHeading(done.alternative_times)
             # "Here are some available alternative times:"

\* C22: the finder returns the fallback slots (09:00, 12:00, 16:00 with the
\* request's duration, minus one equal to the request's start) when the
\* listing of the day failed, and the result of the search over the listed
\* events when the listing succeeded.  (A successful listing counts as
\* usable data, an empty one included.)
C22_FallbackExactlyOnFailedListing ==
    (done.handler = "finder" /\ done.outcome = "alternatives") =>
        /\ done.listing.status # "success" =>
              done.alternative_times
                = get_fallback_alternatives(done.slot.start, done.slot.end)
        /\ done.listing.status = "success" =>
              done.alternative_times
                = FindFreeSlots(done.slot.start, done.slot.end,
                                ListedIntervals(done.listing))

\* the half of C22 that the code meets: a listing in the API's shape is
\* searched
C22_ParsedListingIsSearched ==
    Searched(done) /\ done.listing.status = "success" =>
        done.alternative_times
          = FindFreeSlots(done.slot.start, done.slot.end,
                          ListedIntervals(done.listing))

\* C23: time normalisation is idempotent: for every pair of non-empty time
\* strings, normalising the output of the normalisation returns that same
\* output.
C23_NormalizationIdempotent ==
    (done.handler = "normalize" /\ done.outcome = "normalized") =>
        /\ done.slot.start = done.result.start
        /\ done.slot.end = done.result.end

\* a time with a time part and no offset got its 'Z', next to a date without
\* a time part, and the second normalisation has run
C23_Witness ==
    /\ done.handler = "normalize" /\ done.outcome = "normalized"
    /\ Len(done.slot.start) > 6
    /\ EndsWith(done.slot.start, "Z")
    /\ EnsureIsoOne(SubSeq(done.slot.start, 1, Len(done.slot.start) - 1))
         = done.slot.start
    /\ ~Contains(done.slot.end, "T")

\* the task is suspended at an await inside a transition of a reply
MidTransition(tk) ==
    /\ tk.handler \in {"hvr", "hcr"}
    /\ tk.pc \notin {"idle", "done"}

FirstFreeSlot(u) ==
    /\ task[u].pc = "idle"
    /\ \A v \in Tasks : v < u => task[v].pc # "idle"

\* C24: the conversation-state map has no mutual exclusion: while a task of
\* a requester is suspended in the middle of a transition, a further message
\* of the same requester is taken up by another task, and no step of another
\* task changes what the suspended task read when it started.
C24_NoMutualExclusion ==
    [][\A t \in Tasks :
        MidTransition(task[t]) =>
            /\ \A u \in Tasks, text \in RaceTexts :
                  FirstFreeSlot(u) => ENABLED Arrive(u, task[t].sender, text)
            /\ MidTransition(task'[t]) => task'[t].state = task[t].state]_vars

\* a task that another one overtook: it is suspended in a transition it
\* started from a non-Idle state, and the task that just ended started from
\* the same state and cleared it
C24_Witness ==
    \E t \in Tasks :
        /\ MidTransition(task[t])
        /\ Mode(task[t].state) # "Idle"
        /\ done.handler \in {"hvr", "hcr"}
        /\ done.sender = task[t].sender
        /\ done.state = task[t].state
        /\ StateAfter = EmptyDict
        /\ StateOf(conversation_state, task[t].sender) # task[t].state

\* C25: in every reachable state a requester in AwaitingVerification or
\* AwaitingConflictResolution has a pending action stored (the plan, or the
\* action under negotiation, as a live object), and a requester in Idle has
\* no pending action, conflicts or alternatives stored.
C25_ModeAndPendingAction ==
    \A sender \in Senders :
        LET d == StateOf(conversation_state, sender)
        IN  /\ Mode(d) = "AwaitingVerification" =>
                  /\ "pending_action" \in DOMAIN d
                  /\ \A a \in SeqRange(d.pending_action) :
                        heap[a] # FreeAction
            /\ Mode(d) = "AwaitingConflictResolution" =>
                  /\ "original_action" \in DOMAIN d
                  /\ d.original_action \in ActionIds
                  /\ heap[d.original_action] # FreeAction
            /\ Mode(d) = "Idle" =>
                  DOMAIN d \cap {"pending_action", "original_action",
                                 "conflicts", "alternative_times"} = {}

\* a custom time that conflicts as well: the state written by
\* handle_custom_reschedule still holds the action
C25_Witness ==
    /\ done.outcome = "custom_conflict"
    /\ done.text # "force"
    /\ Mode(StateAfter) = "AwaitingConflictResolution"
    /\ heap[StateAfter.original_action].method = "create_event"

\* the handling of an affirmative reply has handed an action of the stored
\* plan to the calendar service
InvokedStoredPlan(tk) ==
    /\ tk.handler = "hvr" /\ tk.text = "yes"
    /\ Mode(tk.state) = "AwaitingVerification"
    /\ tk.plan = tk.state.pending_action
    /\ tk.call # FreeAction

\* two handlings of one requester that work on the same stored plan
SameEpisode(a, b) ==
    /\ a.sender = b.sender
    /\ a.state = b.state

\* C26: within one negotiation episode the pending plan is executed at most
\* once: of the handlings of affirmative replies that started from one
\* AwaitingVerification state, no two invoke the stored plan's calendar
\* actions.
C26_StoredPlanExecutedOnce ==
    /\ \A t \in Tasks, u \in Tasks :
          (t # u /\ SameEpisode(task[t], task[u]))
              => ~(InvokedStoredPlan(task[t]) /\ InvokedStoredPlan(task[u]))
    /\ \A t \in Tasks :
          SameEpisode(task[t], done)
              => ~(InvokedStoredPlan(task[t]) /\ InvokedStoredPlan(done))

\* C27: the search loop terminates for every set of busy intervals and
\* every duration: each iteration that stays in the loop strictly increases
\* the cursor, and the loop is eventually left.
C27_SearchLoopTerminates ==
    /\ [][\A t \in Tasks :
            (task[t].pc = "loop" /\ task'[t].pc = "loop")
                => task'[t].index > task[t].index]_vars
    /\ <>(\A t \in Tasks : task[t].pc # "loop")

\* the loop returned after it had jumped over a busy period
C27_Witness ==
    /\ done.handler = "finder" /\ done.outcome = "alternatives"
    /\ Len(done.conflicts) > 1
    /\ \E i \in 1..Len(done.alternative_times) :
          \E j \in 1..Len(done.conflicts) :
              done.alternative_times[i].start = done.conflicts[j].end

\* what the loop returns is what SearchSlots computes
C27_LoopComputesSearch ==
    (done.handler = "finder" /\ done.outcome = "alternatives") =>
        done.alternative_times
          = FindFreeSlots(done.slot.start, done.slot.end,
                          ListedIntervals(done.listing))

\* C28: when a create_event of a plan of several actions returns status
\* conflict, execute_action_plan returns at once: the index of the plan does
\* not advance and the calendar is untouched, only the conflicting action is
\* stored as the pending action, the later actions of a plan that was not
\* stored are dropped, and the handling of the reply that resolves the
\* conflict calls the stored action and nothing else.
C28_ConflictEndsThePlan ==
    [][/\ \A t \in Tasks :
            (task[t].pc = "exec_alts" /\ task'[t].pc # "exec_alts") =>
                LET tk == task[t]
                    a == tk.plan[tk.idx]
                    after == IF task'[t].pc = "idle" THEN done' ELSE task'[t]
                    d == StateOf(conversation_state', tk.sender)
                IN  /\ after.outcome = "conflict"
                    /\ after.pc \in {"done", "hvr_clear"}
                    /\ after.idx = tk.idx
                    /\ after.call = tk.call
                    /\ calendar' = calendar
                    /\ Mode(d) = "AwaitingConflictResolution"
                    /\ RefsOfDict(d) = {a}
                    /\ tk.handler = "pm" =>
                          \A i \in 1..Len(tk.plan) :
                              i # tk.idx => heap'[tk.plan[i]] = FreeAction
       /\ (done'.handler = "hcr" /\ done'.call # FreeAction) =>
              /\ done'.original_action = done'.state.original_action
              /\ done'.plan = <<>>
              /\ done'.call.method = "create_event"]_vars

\* the first of two actions conflicts: the second was never called and is
\* gone, and the first alone is pending
C28_Witness ==
    /\ done.handler = "pm" /\ done.outcome = "conflict"
    /\ Len(done.plan) = 2 /\ done.idx = 1
    /\ done.call.method = "create_event"
    /\ StateAfter.original_action = done.plan[1]
    /\ heap[done.plan[2]] = FreeAction
    /\ Mode(StateAfter) = "AwaitingConflictResolution"

\* C29: create_event with check_for_conflicts = True inserts an event only
\* when the conflict check succeeded and found no conflicts: after a check
\* that failed (status error) nothing is inserted, and whenever create_event
\* returns status conflict the calendar is unchanged.
C29_InsertOnlyAfterCleanCheck ==
    [][\A t \in Tasks :
        (/\ task[t].pc = "exec_checked"
         /\ task'[t].pc # "exec_checked"
         /\ task[t].call.method = "create_event"
         /\ task[t].call.check_for_conflicts) =>
            LET after == IF task'[t].pc = "idle" THEN done' ELSE task'[t]
            IN  /\ calendar' # calendar =>
                      /\ task[t].check.status = "success"
                      /\ ~task[t].check.has_conflicts
                /\ task[t].check.status = "error" =>
                      /\ calendar' = calendar
                      /\ after.result.status # "success"
                /\ after.result.status = "conflict" =>
                      calendar' = calendar]_vars

\* C30: for every set of busy intervals inside the queried range, the free
\* slots find_free_time returns are in strictly increasing start order,
\* pairwise non-overlapping with none repeated, each at least
\* duration_minutes long, and none overlaps a busy interval.
C30_FreeTimeSlots ==
    (done.handler = "find_free_time" /\ done.result.status = "success") =>
        LET free_slots == done.result.free_slots
        IN  /\ \A i \in 1..Len(free_slots), j \in 1..Len(free_slots) :
                  i < j => /\ free_slots[i].start < free_slots[j].start
                           /\ free_slots[i].end <= free_slots[j].start
            /\ \A i \in 1..Len(free_slots) :
                  /\ free_slots[i].end - free_slots[i].start >= done.index
                  /\ \A b \in calendar :
                        ~RuleOverlap(b, free_slots[i].start,
                                     free_slots[i].end)

\* the same for the days that have at least one event
C30_HoldsWithEvents ==
    calendar # {} => C30_FreeTimeSlots

\* a day with overlapping events for which three slots are returned
C30_CaseWithEvents ==
    /\ done.handler = "find_free_time" /\ done.result.status = "success"
    /\ Len(done.result.free_slots) >= 3
    /\ \E b \in calendar, c \in calendar :
          b # c /\ RuleOverlap(b, c.start, c.end)

====
